---- MODULE Spec2Model ----
(***************************************************************************)
(* Model of drugs.py: a Streamlit script that loads a CSV of accidental    *)
(* drug deaths through load_data (memoised by st.cache_data), filters the  *)
(* table by the sidebar widgets and derives three metrics and four chart   *)
(* data sets.  Streamlit re-executes the whole script on every widget      *)
(* interaction; one execution of the script is one action of the model.    *)
(*                                                                         *)
(* Representation of a CSV file: file.schema is the set of drug columns    *)
(* in the header (Date, Age, Sex, Race, DeathCounty are always present),   *)
(* file.rows the data rows.  A text cell is a string, "" being the empty   *)
(* cell that read_csv turns into NaN.  A Date cell is [k, y, m] with k     *)
(* "date" (text of a date in year y, month m), "bad" (text that is no      *)
(* date) or "na" (empty).  An Age cell is [k, v] with k "int" (text of     *)
(* the integer v), "float" (text of a number with a fraction whose         *)
(* integer part is v), "text" (text that is no number) or "na" (empty).    *)
(***************************************************************************)
EXTENDS Integers, Sequences, FiniteSets, TLC

VARIABLES file, cache, df, sel, view, out, err

vars == <<file, cache, df, sel, view, out, err>>

(* Largest number of data rows of an input file.                           *)
MaxRows == 2

----------------------------------------------------------------------------
(* Generic helpers standing for pandas / Python built-ins.                 *)

Range(s) == {s[i] : i \in 1..Len(s)}

RECURSIVE SumSeq(_)
SumSeq(s) == IF s = <<>> THEN 0 ELSE Head(s) + SumSeq(Tail(s))

Min(S) == CHOOSE x \in S : \A y \in S : x <= y
Max(S) == CHOOSE x \in S : \A y \in S : y <= x

(* Series.unique(): the distinct values in order of first appearance.      *)
RECURSIVE unique(_)
unique(s) ==
    IF s = <<>> THEN <<>>
    ELSE LET u == unique(SubSeq(s, 1, Len(s) - 1))
             x == s[Len(s)]
         IN IF x \in Range(u) THEN u ELSE Append(u, x)

(* Stable ascending sort of a sequence of pairs <<key, value>> by key, as  *)
(* an insertion sort: an element goes after every element whose key is not *)
(* greater than its own.                                                   *)
RECURSIVE InsertSorted(_, _)
InsertSorted(x, s) ==
    IF s = <<>> THEN <<x>>
    ELSE IF x[1] < Head(s)[1] THEN <<x>> \o s
    ELSE <<Head(s)>> \o InsertSorted(x, Tail(s))

RECURSIVE StableSort(_)
StableSort(s) ==
    IF s = <<>> THEN <<>>
    ELSE InsertSorted(s[Len(s)], StableSort(SubSeq(s, 1, Len(s) - 1)))

----------------------------------------------------------------------------
(* The program's column lists.                                             *)

drug_columns ==
    <<"Heroin", "Cocaine", "Fentanyl", "Oxycodone", "Oxymorphone",
      "Ethanol", "Hydrocodone", "Benzodiazepine", "Methadone",
      "Amphet", "Tramad", "Morphine_NotHeroin">>

(* The chart summing every encoded column.                                 *)
substances_all == drug_columns

substances ==
    <<"Heroin", "Cocaine", "Fentanyl", "Oxycodone", "Oxymorphone",
      "Ethanol", "Hydrocodone", "Benzodiazepine", "Methadone">>

----------------------------------------------------------------------------
(* load_data: the data preparation pipeline.                               *)

(* pd.read_csv: the data rows under the default RangeIndex 0, 1, ...; the  *)
(* pandas index label idx stays with a row through every later step.       *)
read_csv(f) ==
    [i \in 1..Len(f.rows) |->
        [idx |-> i - 1, Date |-> f.rows[i].Date, Age |-> f.rows[i].Age,
         Sex |-> f.rows[i].Sex, Race |-> f.rows[i].Race,
         DeathCounty |-> f.rows[i].DeathCounty, cells |-> f.rows[i].cells]]

(* The dtype read_csv infers for the Age column from all of its cells: one *)
(* cell that is no number makes it object (every cell kept as its text),   *)
(* otherwise an empty cell or a fraction makes it float64, else int64.     *)
AgeDtype(rows) ==
    IF \E i \in 1..Len(rows) : rows[i].Age.k = "text" THEN "object"
    ELSE IF \E i \in 1..Len(rows) : rows[i].Age.k \in {"na", "float"} THEN "float64"
    ELSE "int64"

NaT == [nat |-> TRUE, y |-> 0, m |-> 0]

(* pd.to_datetime(..., errors='coerce') on one cell: text that is no date  *)
(* and the empty cell both give NaT.                                       *)
to_datetime(cell) ==
    IF cell.k = "date" THEN [nat |-> FALSE, y |-> cell.y, m |-> cell.m] ELSE NaT

(* dropna with Date left out of the subset.                                *)
notna_subset_noDate(r) ==
    /\ r.Age.k # "na"
    /\ r.Sex # ""
    /\ r.Race # ""
    /\ r.DeathCounty # ""

(* Whether a row passes dropna(subset=[Date, Age, Sex, Race, DeathCounty]). *)
notna_subset(r) ==
    /\ ~r.Date.nat
    /\ r.Age.k # "na"
    /\ r.Sex # ""
    /\ r.Race # ""
    /\ r.DeathCounty # ""

dropna(rows) == SelectSeq(rows, notna_subset)

(* Whether astype(int) converts one Age cell of a column of the given      *)
(* dtype: in an object column the cell is its text and int() accepts only  *)
(* integer text; in a numeric column every finite number converts and NaN  *)
(* raises.                                                                 *)
astype_int_ok(cell, dtype) ==
    IF dtype = "object" THEN cell.k = "int" ELSE cell.k \in {"int", "float"}

(* A map that also accepts lower case and trailing blanks.                 *)
map_Y_loose(cell) == IF cell \in {"Y", "y", "Y "} THEN <<1>> ELSE <<>>

(* Series.map({'Y': 1}) on one cell: <<1>> for the key "Y", <<>> (NaN) for *)
(* anything else, the empty cell included.                                 *)
map_Y(cell) == IF cell = "Y" THEN <<1>> ELSE <<>>

(* .fillna(0).astype(int) on one mapped value.                             *)
fillna0(v) == IF v = <<>> THEN 0 ELSE v[1]

(* The loop over drug_columns: a listed column that is in df.columns is    *)
(* replaced by its 0/1 encoding; a listed column that is absent is skipped *)
(* and no column is created.                                               *)
encode_drugs(schema, cells) ==
    [c \in schema |->
        IF c \in Range(drug_columns) THEN fillna0(map_Y(cells[c])) ELSE cells[c]]

(* load_data(path) on a cache miss.  Result: [ok, df]; ok is FALSE when    *)
(* df['Age'].astype(int) raises ValueError, which ends the call.  A table  *)
(* is [columns, rows]: the drug columns it has, and its rows in order.     *)
load_data(f) ==
    LET raw   == read_csv(f)
        dtype == AgeDtype(raw)
        dated == [i \in 1..Len(raw) |-> [raw[i] EXCEPT !.Date = to_datetime(@)]]
        kept  == dropna(dated)
    IN IF \E i \in 1..Len(kept) : ~astype_int_ok(kept[i].Age, dtype)
       THEN [ok |-> FALSE, df |-> [columns |-> {}, rows |-> <<>>]]
       ELSE [ok |-> TRUE,
             df |-> [columns |-> f.schema,
                     rows |-> [i \in 1..Len(kept) |->
                        [idx |-> kept[i].idx, Date |-> kept[i].Date,
                         Age |-> kept[i].Age.v, Sex |-> kept[i].Sex,
                         Race |-> kept[i].Race,
                         DeathCounty |-> kept[i].DeathCounty,
                         Year |-> kept[i].Date.y,
                         ind |-> encode_drugs(f.schema, kept[i].cells)]]]]

----------------------------------------------------------------------------
(* The sidebar: the values the three widgets offer for a table t.          *)

counties(t) == {"All"} \cup {t.rows[i].DeathCounty : i \in 1..Len(t.rows)}

min_age(t) == Min({t.rows[i].Age : i \in 1..Len(t.rows)})
max_age(t) == Max({t.rows[i].Age : i \in 1..Len(t.rows)})

genders(t) == {"All"} \cup {t.rows[i].Sex : i \in 1..Len(t.rows)}

(* The widgets' values on the first execution: first option of each       *)
(* selectbox, the whole range of the slider.                               *)
DefaultSelection(t) ==
    [county |-> "All", age |-> <<min_age(t), max_age(t)>>, gender |-> "All"]

(* Every combination of widget values the user can set.                    *)
Selections(t) ==
    LET ages == min_age(t)..max_age(t)
    IN {[county |-> c, age |-> a, gender |-> g] :
           c \in counties(t),
           a \in {p \in ages \X ages : p[1] <= p[2]},
           g \in genders(t)}

----------------------------------------------------------------------------
(* The filter and the derived data.                                        *)

(* between with both ends exclusive.                                       *)
between_exclusive(age, lo, hi) == lo < age /\ age < hi

(* Series.between(lo, hi): both ends inclusive.                            *)
between(age, lo, hi) == lo <= age /\ age <= hi

(* df_filtered: the three successive boolean-mask selections.              *)
applyFilters(rows, s) ==
    LET byAge    == SelectSeq(rows, LAMBDA r : between(r.Age, s.age[1], s.age[2]))
        byCounty == IF s.county # "All"
                    THEN SelectSeq(byAge, LAMBDA r : r.DeathCounty = s.county)
                    ELSE byAge
    IN IF s.gender # "All"
       THEN SelectSeq(byCounty, LAMBDA r : r.Sex = s.gender)
       ELSE byCounty

(* len(df_filtered) *)
totalCount(v) == Len(v)

(* int(df_filtered['Age'].mean()): the mean of no rows is NaN and int(NaN) *)
(* raises ValueError; otherwise the mean truncated to an integer.          *)
averageAge(v) ==
    IF v = <<>> THEN [ok |-> FALSE, v |-> 0]
    ELSE [ok |-> TRUE, v |-> SumSeq([i \in 1..Len(v) |-> v[i].Age]) \div Len(v)]

(* A count that reports zero for a column the table does not have.         *)
indicatorCount_skip(cols, v, name) ==
    IF name \notin cols THEN [ok |-> TRUE, v |-> 0]
    ELSE [ok |-> TRUE, v |-> SumSeq([i \in 1..Len(v) |-> v[i].ind[name]])]

(* int(df_filtered[name].sum()): KeyError when the table has no column of  *)
(* that name.                                                              *)
indicatorCount(cols, v, name) ==
    IF name \notin cols THEN [ok |-> FALSE, v |-> 0]
    ELSE [ok |-> TRUE, v |-> SumSeq([i \in 1..Len(v) |-> v[i].ind[name]])]

(* groupby(..., sort=False): the group keys in order of appearance.        *)
groupby_keys_unsorted(v) == unique([i \in 1..Len(v) |-> v[i].Year])

(* groupby('Year').size().reset_index(name='Count'): one <<Year, Count>>   *)
(* per group, the group keys sorted.                                       *)
groupby_keys(v) ==
    LET ks == unique([i \in 1..Len(v) |-> v[i].Year])
        sorted == StableSort([i \in 1..Len(ks) |-> <<ks[i], ks[i]>>])
    IN [i \in 1..Len(sorted) |-> sorted[i][2]]

deaths_by_year(v) ==
    LET keys == groupby_keys(v)
    IN [i \in 1..Len(keys) |->
          <<keys[i], Cardinality({j \in 1..Len(v) : v[j].Year = keys[i]})>>]

(* df_filtered['DeathCounty'].value_counts(): one <<County, Count>> per    *)
(* distinct county, largest count first.                                   *)
value_counts(v) ==
    LET ks == unique([i \in 1..Len(v) |-> v[i].DeathCounty])
        n(c) == Cardinality({j \in 1..Len(v) : v[j].DeathCounty = c})
        sorted == StableSort([i \in 1..Len(ks) |-> <<0 - n(ks[i]), ks[i]>>])
    IN [i \in 1..Len(sorted) |-> <<sorted[i][2], 0 - sorted[i][1]>>]

(* deaths_by_county.sort_values('Count', ascending=True), the bar chart's  *)
(* data.                                                                   *)
deaths_by_county(v) ==
    LET vc == value_counts(v)
        sorted == StableSort([i \in 1..Len(vc) |-> <<vc[i][2], vc[i][1]>>])
    IN [i \in 1..Len(sorted) |-> <<sorted[i][2], sorted[i][1]>>]

(* df_filtered[substances].sum().sort_values(ascending=True): KeyError     *)
(* when a listed column is not in the table; else one <<name, sum>> per    *)
(* listed column, smallest sum first.                                      *)
sub_counts(cols, v) ==
    IF ~(Range(substances) \subseteq cols) THEN [ok |-> FALSE, v |-> <<>>]
    ELSE LET sums == [i \in 1..Len(substances) |->
                        <<SumSeq([j \in 1..Len(v) |-> v[j].ind[substances[i]]]),
                          substances[i]>>]
             sorted == StableSort(sums)
         IN [ok |-> TRUE,
             v |-> [i \in 1..Len(sorted) |-> <<sorted[i][2], sorted[i][1]>>]]

(* The data of px.histogram(df_filtered, x='Age', color='Sex'): one trace  *)
(* <<Sex, ages>> per distinct Sex of the view, in order of appearance.     *)
age_by_gender(v) ==
    LET gs == unique([i \in 1..Len(v) |-> v[i].Sex])
    IN [i \in 1..Len(gs) |->
          <<gs[i], LET m == SelectSeq(v, LAMBDA r : r.Sex = gs[i])
                   IN [j \in 1..Len(m) |-> m[j].Age]>>]

----------------------------------------------------------------------------
(* One execution of the script body after load_data (lines 40 to 112).     *)
(* An output is <<>> while the script has not produced it and <<value>>    *)
(* once it has; an exception ends the execution where it is raised.        *)

NoOut ==
    [total |-> <<>>, avg |-> <<>>, fentanyl |-> <<>>, deaths_by_year |-> <<>>,
     deaths_by_county |-> <<>>, sub_counts |-> <<>>, age_by_gender |-> <<>>]

NoSelection == [county |-> "All", age |-> <<0, 0>>, gender |-> "All"]

(* The outputs of the script for the table t and the filtered rows v.      *)
Outputs(t, v) ==
    LET avg  == averageAge(v)
        fent == indicatorCount(t.columns, v, "Fentanyl")
        subs == sub_counts(t.columns, v)
        o1 == [NoOut EXCEPT !.total = <<totalCount(v)>>]
        o2 == [o1 EXCEPT !.avg = <<avg.v>>]
        o3 == [o2 EXCEPT !.fentanyl = <<fent.v>>]
        o4 == [o3 EXCEPT !.deaths_by_year = <<deaths_by_year(v)>>,
                         !.deaths_by_county = <<deaths_by_county(v)>>]
        o5 == [o4 EXCEPT !.sub_counts = <<subs.v>>,
                         !.age_by_gender = <<age_by_gender(v)>>]
    IN IF ~avg.ok THEN [out |-> o1, err |-> "ValueError:mean"]
       ELSE IF ~fent.ok THEN [out |-> o2, err |-> "KeyError:Fentanyl"]
       ELSE IF ~subs.ok THEN [out |-> o4, err |-> "KeyError:substances"]
       ELSE [out |-> o5, err |-> "none"]

(* The script from the sidebar on, with the widgets at s.  On a table with *)
(* no rows int(df.Age.min()) raises before any widget or filter exists.    *)
Script(t, s) ==
    IF t.rows = <<>>
    THEN /\ sel' = NoSelection
         /\ view' = <<>>
         /\ out' = NoOut
         /\ err' = "ValueError:min_age"
    ELSE LET v == applyFilters(t.rows, s)
             r == Outputs(t, v)
         IN /\ sel' = s
            /\ view' = <<v>>
            /\ out' = r.out
            /\ err' = r.err

----------------------------------------------------------------------------
(* The input files.                                                        *)

AllColumns == Range(drug_columns)

D2016 == [k |-> "date", y |-> 2016, m |-> 3]
D2017 == [k |-> "date", y |-> 2017, m |-> 11]
DBad  == [k |-> "bad", y |-> 0, m |-> 0]
DNa   == [k |-> "na", y |-> 0, m |-> 0]

AInt(n) == [k |-> "int", v |-> n]
AFloat(n) == [k |-> "float", v |-> n]
AText == [k |-> "text", v |-> 0]
ANa == [k |-> "na", v |-> 0]

(* Drug cells of a row: "Y" in the columns ys, the text other elsewhere.   *)
Cells(ys, other) == [c \in AllColumns |-> IF c \in ys THEN "Y" ELSE other]

Row(d, a, s, r, c, cells) ==
    [Date |-> d, Age |-> a, Sex |-> s, Race |-> r, DeathCounty |-> c, cells |-> cells]

(* Rows with defects in the five required fields.                          *)
DirtyRows ==
    LET cs == Cells({"Fentanyl"}, "")
    IN {Row(d, AInt(40), "M", "White", "Hartford", cs) : d \in {D2016, DBad, DNa}}
       \cup {Row(D2016, a, "M", "White", "Hartford", cs) :
                a \in {AInt(39), AFloat(40), AText, ANa}}
       \cup {Row(D2016, AInt(40), "", "White", "Hartford", cs),
             Row(D2016, AInt(40), "F", "", "Hartford", cs),
             Row(D2016, AInt(40), "F", "White", "", cs),
             Row(DNa, AText, "M", "White", "Hartford", cs)}

(* Complete rows that differ in their drug cells.                          *)
MarkerRows ==
    {Row(D2016, AInt(40), p[1], "White", p[2], cs) :
        p \in {<<"M", "Hartford">>, <<"F", "New Haven">>},
        cs \in {Cells({}, ""),
                Cells({"Fentanyl"}, "N"),
                Cells({"Heroin", "Fentanyl", "Amphet"}, "y"),
                Cells({"Cocaine", "Heroin", "Tramad"}, "Y "),
                [Cells({"Methadone"}, "") EXCEPT !["Fentanyl"] = "yes"]}}

(* Complete rows that differ in what the filter and the charts read.       *)
EngineRows ==
    {Row(D2016, AInt(a), s, "White", c, Cells({"Fentanyl"}, "")) :
        a \in {39, 40}, s \in {"M", "F"}, c \in {"Hartford", "New Haven"}}
    \cup {Row(D2017, AInt(39), "M", "White", "Hartford", Cells({"Heroin"}, "")),
          Row(D2017, AInt(41), "F", "White", "New Haven", Cells({}, ""))}

SeqsUpTo(S, n) == UNION {[1..k -> S] : k \in 0..n}

(* A file with the drug columns schema: the rows' cells of those columns.  *)
File(schema, rows) ==
    [schema |-> schema,
     rows |-> [i \in 1..Len(rows) |->
                 [rows[i] EXCEPT !.cells = [c \in schema |-> rows[i].cells[c]]]]]

Schemas ==
    {AllColumns, AllColumns \ {"Fentanyl"}, AllColumns \ {"Heroin"},
     Range(substances), {}}

Files ==
    {File(AllColumns, rows) : rows \in SeqsUpTo(DirtyRows, MaxRows)}
    \cup {File(sch, rows) : sch \in Schemas, rows \in SeqsUpTo(MarkerRows, MaxRows)}
    \cup {File(AllColumns, rows) : rows \in SeqsUpTo(EngineRows, MaxRows)}

----------------------------------------------------------------------------
(* The state machine.  file: the CSV at 'drug_deaths.csv'.  cache: the     *)
(* memo of st.cache_data for that path, <<>> or <<table>>.  df: the table  *)
(* load_data returned to the latest execution.  sel, view, out, err: the   *)
(* widgets' values, df_filtered, the outputs and the exception (or "none") *)
(* of the latest execution.                                                *)

Init ==
    /\ file \in Files
    /\ cache = <<>>
    /\ df = [columns |-> {}, rows |-> <<>>]
    /\ sel = NoSelection
    /\ view = <<>>
    /\ out = NoOut
    /\ err = "notrun"

(* An execution while the memo is empty: load_data runs its body.  When it *)
(* raises, nothing is memoised and the execution ends; otherwise the       *)
(* result is memoised and the script goes on with the widgets at their     *)
(* defaults.                                                               *)
FirstRun ==
    /\ cache = <<>>
    /\ LET r == load_data(file)
       IN IF ~r.ok
          THEN /\ err' = "ValueError:astype"
               /\ UNCHANGED <<file, cache, df, sel, view, out>>
          ELSE /\ cache' = <<r.df>>
               /\ df' = r.df
               /\ Script(r.df, IF r.df.rows = <<>> THEN NoSelection
                               ELSE DefaultSelection(r.df))
               /\ UNCHANGED file

(* A rerun that filters the memoised table in place.                       *)
Rerun_inplace ==
    /\ cache # <<>>
    /\ df' = cache[1]
    /\ \E s \in IF cache[1].rows = <<>> THEN {NoSelection} ELSE Selections(cache[1]) :
          /\ Script(cache[1], s)
          /\ cache' = <<[cache[1] EXCEPT !.rows = applyFilters(@, s)]>>
    /\ UNCHANGED file

(* An execution after a widget change: load_data returns the memoised      *)
(* table and the script runs with the widgets' new values.                 *)
Rerun ==
    /\ cache # <<>>
    /\ df' = cache[1]
    /\ \E s \in IF cache[1].rows = <<>> THEN {NoSelection} ELSE Selections(cache[1]) :
          Script(cache[1], s)
    /\ UNCHANGED <<file, cache>>

Next == FirstRun \/ Rerun

Spec == Init /\ [][Next]_vars

----------------------------------------------------------------------------
(* Properties.                                                             *)

Nine ==
    {"Heroin", "Cocaine", "Fentanyl", "Oxycodone", "Oxymorphone",
     "Ethanol", "Hydrocodone", "Benzodiazepine", "Methadone"}

(* The source row of a record of a prepared table.                         *)
SourceRow(rec) == file.rows[rec.idx + 1]

RowComplete(row) ==
    /\ row.Date.k = "date"
    /\ row.Age.k # "na"
    /\ row.Sex # ""
    /\ row.Race # ""
    /\ row.DeathCounty # ""

Matches(r, s) ==
    /\ s.age[1] <= r.Age /\ r.Age <= s.age[2]
    /\ (s.county = "All" \/ r.DeathCounty = s.county)
    /\ (s.gender = "All" \/ r.Sex = s.gender)

(* C1: the Filtered View holds exactly the Records of the Prepared Table   *)
(* whose age is within the inclusive range and whose county and sex equal  *)
(* the selected ones (or the selection is "All"), each once and in the     *)
(* table's order; the default selection returns every Record.              *)
C1_FilteredViewExact ==
    view # <<>> =>
        LET v == view[1]
        IN /\ Range(v) = {r \in Range(df.rows) : Matches(r, sel)}
           /\ \A i, j \in 1..Len(v) : i < j => v[i].idx < v[j].idx
           /\ (sel = DefaultSelection(df) => v = df.rows)

(* A selection that keeps a Record whose age is on a bound of the range    *)
(* and leaves another out.                                                 *)
C1_Witness ==
    /\ view # <<>>
    /\ Len(view[1]) >= 1
    /\ Len(view[1]) < Len(df.rows)
    /\ \E i \in 1..Len(view[1]) : view[1][i].Age = sel.age[2]
    /\ sel.county # "All"

C3_IndicatorIffY ==
    cache # <<>> =>
        \A i \in 1..Len(cache[1].rows) :
           \A c \in file.schema \cap Range(drug_columns) :
              LET rec == cache[1].rows[i]
              IN /\ rec.ind[c] \in {0, 1}
                 /\ (rec.ind[c] = 1 <=> SourceRow(rec).cells[c] = "Y")

(* A Record with one indicator from "Y" and another from "Y " or "y".      *)
C3_Witness ==
    /\ cache # <<>>
    /\ \E i \in 1..Len(cache[1].rows) :
          LET rec == cache[1].rows[i]
          IN \E c, d \in file.schema :
                /\ rec.ind[c] = 1
                /\ rec.ind[d] = 0
                /\ SourceRow(rec).cells[d] \in {"Y ", "y"}

(* C4: on an empty Filtered View the average age is a "no data" value: the *)
(* script raises nothing there, reports no zero, and the total is 0.       *)
C4_EmptyViewAverageSentinel ==
    view = <<<<>>>> =>
        /\ err # "ValueError:mean"
        /\ out.total = <<0>>
        /\ out.avg # <<>>
        /\ out.avg # <<0>>

(* C5: on an empty Filtered View each of the four chart data sets is       *)
(* produced and is the empty sequence.                                     *)
C5_EmptyViewEmptyAggregates ==
    view = <<<<>>>> =>
        /\ out.deaths_by_year = <<<<>>>>
        /\ out.deaths_by_county = <<<<>>>>
        /\ out.sub_counts = <<<<>>>>
        /\ out.age_by_gender = <<<<>>>>

(* C6: a file with a row whose age is text that is no number still loads,  *)
(* and the table holds no Record of such a row.                            *)
C6_NonNumericAgeDropped ==
    (err # "notrun" /\ \E j \in 1..Len(file.rows) : file.rows[j].Age.k = "text") =>
        /\ cache # <<>>
        /\ \A i \in 1..Len(cache[1].rows) : SourceRow(cache[1].rows[i]).Age.k # "text"

IsDeathsOverTime(d, v) ==
    /\ {d[i][1] : i \in 1..Len(d)} = {v[j].Year : j \in 1..Len(v)}
    /\ \A i, j \in 1..Len(d) : i < j => d[i][1] < d[j][1]
    /\ \A i \in 1..Len(d) : d[i][2] = Cardinality({j \in 1..Len(v) : v[j].Year = d[i][1]})
    /\ SumSeq([i \in 1..Len(d) |-> d[i][2]]) = totalCount(v)

(* C7: the per-year counts of a Filtered View have one entry per year      *)
(* present in the view and none for another year, in strictly ascending    *)
(* year order, each count the number of Records of that year, and the      *)
(* counts sum to the total; the chart's data is that sequence.             *)
C7_DeathsOverTime ==
    view # <<>> =>
        /\ IsDeathsOverTime(deaths_by_year(view[1]), view[1])
        /\ (out.deaths_by_year # <<>> =>
               /\ out.deaths_by_year[1] = deaths_by_year(view[1])
               /\ IsDeathsOverTime(out.deaths_by_year[1], view[1])
               /\ out.total = <<totalCount(view[1])>>)

(* A view whose Records come in descending year order, charted.            *)
C7_Witness ==
    /\ view # <<>>
    /\ out.deaths_by_year # <<>>
    /\ Len(view[1]) = 2
    /\ view[1][1].Year > view[1][2].Year

IsSubstanceFrequency(sc, v) ==
    /\ \A i \in 1..Len(sc) :
          /\ sc[i][1] \in Nine
          /\ sc[i][2] = Cardinality({j \in 1..Len(v) : v[j].ind[sc[i][1]] = 1})
    /\ \A i, j \in 1..Len(sc) : i < j => sc[i][2] <= sc[j][2]

(* C8: the substance counts of a Filtered View name only the nine listed   *)
(* substances, each count is the number of Records of the view whose       *)
(* indicator is 1, and the counts are non-decreasing; the chart's data is  *)
(* that sequence.                                                          *)
C8_SubstanceFrequency ==
    (view # <<>> /\ Nine \subseteq df.columns) =>
        /\ sub_counts(df.columns, view[1]).ok
        /\ IsSubstanceFrequency(sub_counts(df.columns, view[1]).v, view[1])
        /\ (out.sub_counts # <<>> =>
               out.sub_counts[1] = sub_counts(df.columns, view[1]).v)

(* Charted counts that differ, over a view with a Record whose Amphet      *)
(* indicator is 1.                                                         *)
C8_Witness ==
    /\ out.sub_counts # <<>>
    /\ "Amphet" \in df.columns
    /\ \E i \in 1..Len(view[1]) : view[1][i].ind["Amphet"] = 1
    /\ out.sub_counts[1][1][2] < out.sub_counts[1][9][2]

(* C9: once a table is memoised, every later execution leaves the memo as  *)
(* it is, gets that same table from load_data, and its Filtered View is    *)
(* the filter of that table by the selection of that execution alone.      *)
C9_PreparedTableFrozen ==
    [][cache # <<>> =>
          /\ cache' = cache
          /\ df' = cache[1]
          /\ (view' # <<>> =>
                 view'[1] = SelectSeq(cache[1].rows, LAMBDA r : Matches(r, sel')))]_vars

(* After an execution whose selection left Records out, the memo still     *)
(* holds them.                                                             *)
C9_Witness ==
    /\ cache # <<>>
    /\ view # <<>>
    /\ sel # DefaultSelection(cache[1])
    /\ Len(view[1]) < Len(cache[1].rows)
    /\ df = cache[1]

(* C10: load_data succeeds on a file that lacks listed drug columns and    *)
(* creates none of them; without Fentanyl the Fentanyl count raises        *)
(* KeyError for every view and is never produced, without any of the nine  *)
(* the substance counts raise KeyError for every view and are never        *)
(* produced; an execution completes only when the table has all nine.      *)
C10_MissingColumnFails ==
    /\ cache # <<>> =>
          /\ cache[1].columns = file.schema
          /\ \A i \in 1..Len(cache[1].rows) : DOMAIN cache[1].rows[i].ind = file.schema
    /\ (view # <<>> /\ "Fentanyl" \notin file.schema) =>
          /\ ~indicatorCount(df.columns, view[1], "Fentanyl").ok
          /\ out.fentanyl = <<>>
          /\ err \in {"KeyError:Fentanyl", "ValueError:mean"}
          /\ (view[1] # <<>> => err = "KeyError:Fentanyl")
    /\ (view # <<>> /\ ~(Nine \subseteq file.schema)) =>
          /\ ~sub_counts(df.columns, view[1]).ok
          /\ out.sub_counts = <<>>
          /\ err \in {"KeyError:Fentanyl", "KeyError:substances", "ValueError:mean"}
    /\ err = "none" => Nine \subseteq df.columns

(* An execution over a table without the Fentanyl column and a non-empty   *)
(* view.                                                                   *)
C10_Witness ==
    /\ cache # <<>>
    /\ "Fentanyl" \notin file.schema
    /\ view # <<>>
    /\ view[1] # <<>>
    /\ err = "KeyError:Fentanyl"

====
